---------------------------- MODULE Spec2Model ----------------------------
(***************************************************************************)
(* A model of the read-only SQLite query engine of app/main.py: the varint *)
(* decoder, the B-tree page-header decoder, the record decoder, the        *)
(* recursive table scan and the part of main() that plans a SELECT.        *)
(*                                                                         *)
(* Pages are byte sequences; every decoder works on the bytes the way the  *)
(* Python code does.  Python's unbounded integers are kept exact: a varint *)
(* value is three limbs of 21 bits (63 bits are all parse_varint can       *)
(* produce), converted to a plain integer where the value is small.        *)
(***************************************************************************)
EXTENDS Integers, Sequences, FiniteSets, TLC

VARIABLES
    buf,        \* parse_varint: the buffer argument
    at,         \* parse_varint: the offset argument
    vres,       \* parse_varint: what the call returned (or that it raised)
    rin,        \* parse_record: the arguments of one call
    rres,       \* parse_record: what the call returned (or that it raised)
    file,       \* the pages of the database file, page 1 first
    truth,      \* the rows the table of the query holds, in key order
    cmd,        \* the command: the resolved table and the parsed statement
    plan,       \* main's table_info, selected_columns, where, is_count_star
    pc,         \* "start", "scan", "done" (main returned), "raised", "hung"
    stack,      \* the active calls of _read_table, the innermost last
    visited,    \* the pages _read_table decoded, in order
    emitted,    \* the rows the scan yielded, in order
    cell,       \* the last leaf cell parse_record returned for
    out         \* stdout, stderr, exit status, exception, main's counter i

pvars == <<buf, at, vres, rin, rres>>
svars == <<file, truth, cmd, plan, pc, stack, visited, emitted, cell, out>>
vars == <<buf, at, vres, rin, rres, file, truth, cmd, plan, pc, stack, visited,
          emitted, cell, out>>

(***************************************************************************)
(* Bytes and Python integers                                               *)
(***************************************************************************)

\* one limb holds 21 bits
Limb == 2097152

\* the integer 0 as limbs <<high, middle, low>>
Zero == <<0, 0, 0>>

\* n <<= 7; n |= d     (d < 128)
Shl7Or(n, d) ==
    LET lo == n[3] * 128 + d
        mi == n[2] * 128 + (lo \div Limb)
        hi == n[1] * 128 + (mi \div Limb)
    IN  <<hi, mi % Limb, lo % Limb>>

\* buf[i] of a Python bytes object: a negative index counts from the end,
\* an index outside the object raises IndexError (here: -1)
ByteAt(b, i) ==
    IF i >= 0 /\ i < Len(b) THEN b[i + 1]
    ELSE IF i < 0 /\ i >= -Len(b) THEN b[Len(b) + i + 1]
    ELSE -1

(***************************************************************************)
(* parse_varint                                                            *)
(***************************************************************************)

\* the index the for-else clause leaves in i when the loop ran to its end
varint_else_i == -1

\* the second component of the returned pair
varint_consumed(i, offset) == i + 1 - offset

\* the bits one byte contributes to n
varint_payload(byte) == byte % 128

RECURSIVE varint_loop(_, _, _, _)
varint_loop(b, offset, i, n) ==
    IF i = offset + 9
    THEN [err |-> FALSE, n |-> n, consumed |-> varint_consumed(varint_else_i, offset)]
    ELSE LET byte == ByteAt(b, i) IN
         IF byte = -1
         THEN [err |-> TRUE, n |-> Zero, consumed |-> 0]
         ELSE LET n2 == Shl7Or(n, varint_payload(byte)) IN
              IF byte < 128
              THEN [err |-> FALSE, n |-> n2, consumed |-> varint_consumed(i, offset)]
              ELSE varint_loop(b, offset, i + 1, n2)

parse_varint(b, offset) == varint_loop(b, offset, offset, Zero)

\* no call of parse_varint yet
NoVarint == [called |-> FALSE, err |-> FALSE, n |-> Zero, consumed |-> 0]

\* a number larger than every offset and length of the model; Python
\* integers at or above it are all represented by it
Huge == 1073741824

\* a varint value as a plain integer
py_int(n) == IF n[1] = 0 /\ n[2] < 512 THEN n[2] * Limb + n[3] ELSE Huge

(***************************************************************************)
(* Python values of a decoded column: None, int, str, bytes and the tuple  *)
(* struct.unpack_from(">d") returns                                        *)
(***************************************************************************)

PyNone == [k |-> "None", i |-> 0, b |-> <<>>]
PyInt(i) == [k |-> "int", i |-> i, b |-> <<>>]
PyStr(chars) == [k |-> "str", i |-> 0, b |-> chars]
PyBytes(bytes) == [k |-> "bytes", i |-> 0, b |-> bytes]
PyTuple(bytes) == [k |-> "tuple", i |-> 0, b |-> bytes]

\* page[a : b] of a bytes object, 0 <= a <= b: the slice stops at the end
Slice(b, lo, hi) ==
    LET top == IF hi < Len(b) THEN hi ELSE Len(b)
    IN  IF lo >= top THEN <<>> ELSE [j \in 1..(top - lo) |-> b[lo + j]]

\* int.from_bytes(bytes, byteorder="big", signed=False)
RECURSIVE from_bytes_unsigned(_)
from_bytes_unsigned(bytes) ==
    IF bytes = <<>> THEN 0
    ELSE from_bytes_unsigned(SubSeq(bytes, 1, Len(bytes) - 1)) * 256 + bytes[Len(bytes)]

RECURSIVE Pow256(_)
Pow256(k) == IF k = 0 THEN 1 ELSE 256 * Pow256(k - 1)

\* int.from_bytes(bytes, byteorder="big", signed=True)
from_bytes_signed(bytes) ==
    IF bytes = <<>> THEN 0
    ELSE IF bytes[1] >= 128 THEN from_bytes_unsigned(bytes) - Pow256(Len(bytes))
    ELSE from_bytes_unsigned(bytes)

\* bytes.decode("utf-8") succeeds: one-byte and two-byte forms are decoded,
\* every other byte sequence counts as undecodable
RECURSIVE utf8_ok(_)
utf8_ok(bytes) ==
    IF bytes = <<>> THEN TRUE
    ELSE IF bytes[1] < 128 THEN utf8_ok(Tail(bytes))
    ELSE IF /\ bytes[1] >= 194 /\ bytes[1] <= 223 /\ Len(bytes) >= 2
            /\ bytes[2] >= 128 /\ bytes[2] <= 191
         THEN utf8_ok(Tail(Tail(bytes)))
    ELSE FALSE

\* the code points of bytes.decode("utf-8")
RECURSIVE utf8_chars(_)
utf8_chars(bytes) ==
    IF bytes = <<>> THEN <<>>
    ELSE IF bytes[1] < 128 THEN <<bytes[1]>> \o utf8_chars(Tail(bytes))
    ELSE <<(bytes[1] - 192) * 64 + (bytes[2] - 128)>> \o utf8_chars(Tail(Tail(bytes)))

(***************************************************************************)
(* size_for_type and parse_record                                          *)
(***************************************************************************)

\* the byte width of a serial type; -1 stands for NotImplementedError
size_for_type(serial_type) ==
    IF serial_type < 5 THEN serial_type
    ELSE IF serial_type = 5 THEN 6
    ELSE IF serial_type >= 6 /\ serial_type <= 7 THEN 8
    ELSE IF serial_type >= 8 /\ serial_type <= 9 THEN 0
    ELSE IF serial_type >= 12 /\ serial_type % 2 = 0 THEN (serial_type - 12) \div 2
    ELSE IF serial_type >= 13 /\ serial_type % 2 = 1 THEN (serial_type - 13) \div 2
    ELSE -1

\* the filter argument: None, or the pair (column index, text)
NoWhere == [some |-> FALSE, col |-> 0, text |-> <<>>]
Where(col, text) == [some |-> TRUE, col |-> col, text |-> text]

\* the while loop over the serial types of the record header.  The loop's
\* control depends on the offset alone, so an offset seen before means the
\* loop never ends ("diverges").  reads holds the offsets at which the loop
\* called parse_varint.
RECURSIVE header_loop(_, _, _, _, _, _)
header_loop(page, offset, header_end, column_types, total_size, seen) ==
    IF offset = header_end
    THEN [status |-> "ok", column_types |-> column_types,
          total_size |-> total_size, offset |-> offset, reads |-> seen]
    ELSE IF offset \in seen
    THEN [status |-> "diverges", column_types |-> column_types,
          total_size |-> total_size, offset |-> offset, reads |-> seen]
    ELSE LET v == parse_varint(page, offset)
             column_serial_type == py_int(v.n)
             column_size == size_for_type(column_serial_type)
         IN  IF v.err
             THEN [status |-> "IndexError", column_types |-> column_types,
                   total_size |-> total_size, offset |-> offset,
                   reads |-> seen \cup {offset}]
             ELSE IF column_size = -1
             THEN [status |-> "NotImplementedError", column_types |-> column_types,
                   total_size |-> total_size, offset |-> offset,
                   reads |-> seen \cup {offset}]
             ELSE header_loop(page, offset + v.consumed, header_end,
                              Append(column_types, <<column_serial_type, column_size>>),
                              total_size + column_size, seen \cup {offset})

\* column_selection = {column_id: order for order, column_id in enumerate(selection)}:
\* the keys, and the order a key maps to (the last position that names it)
selection_keys(selection) == { selection[k] : k \in 1..Len(selection) }

selection_order(selection, column_id) ==
    (CHOOSE k \in 1..Len(selection) :
        /\ selection[k] = column_id
        /\ \A m \in (k + 1)..Len(selection) : selection[m] # column_id) - 1

\* the length of the list column_values starts as
column_values_len(selection) == Cardinality(selection_keys(selection))

\* the value of a column whose serial type is 0
serial0_value(column_id, int_pk_column, rowid) ==
    IF column_id = int_pk_column THEN PyInt(rowid) ELSE PyNone

\* the branch of parse_record that decodes one column; err is struct.error
decode_value(page, offset, column_serial_type, column_id, int_pk_column, rowid) ==
    IF column_serial_type = 0
    THEN [err |-> FALSE, value |-> serial0_value(column_id, int_pk_column, rowid)]
    ELSE IF column_serial_type >= 1 /\ column_serial_type <= 6
    THEN LET number_byte_size ==
                 IF column_serial_type < 5 THEN column_serial_type
                 ELSE IF column_serial_type = 5 THEN 6 ELSE 8
         IN  [err |-> FALSE,
              value |-> PyInt(from_bytes_signed(Slice(page, offset, offset + number_byte_size)))]
    ELSE IF column_serial_type = 7
    THEN IF offset + 8 > Len(page)
         THEN [err |-> TRUE, value |-> PyNone]
         ELSE [err |-> FALSE, value |-> PyTuple(Slice(page, offset, offset + 8))]
    ELSE IF column_serial_type \in {8, 9}
    THEN [err |-> FALSE, value |-> PyInt(IF column_serial_type = 9 THEN 1 ELSE 0)]
    ELSE IF column_serial_type >= 12 /\ column_serial_type % 2 = 0
    THEN [err |-> FALSE,
          value |-> PyBytes(Slice(page, offset, offset + (column_serial_type - 12) \div 2))]
    ELSE LET blob_value == Slice(page, offset, offset + (column_serial_type - 13) \div 2)
         IN  [err |-> FALSE,
              value |-> IF utf8_ok(blob_value) THEN PyStr(utf8_chars(blob_value))
                        ELSE PyBytes(blob_value)]

\* value != where[1]: only a str compares equal to the filter text
differs_from_text(value, text) == ~(value.k = "str" /\ value.b = text)

\* a rejected row reporting the bytes decoded so far instead
rejected_length_so_far(total_size, offset, initial_offset) == offset - initial_offset

\* what parse_record returns for a row the filter rejects
rejected_length(total_size, offset, initial_offset) == total_size

\* what parse_record returns for a row it decoded to the end
accepted_length(total_size, offset, initial_offset) == offset - initial_offset

\* a result of parse_record: status "ok" is a return, and then none says
\* whether the first component is None; every other status is an exception
RecordResult(status, none, values, length) ==
    [status |-> status, none |-> none, values |-> values, length |-> length]

\* the arguments of parse_record the for loop reads
RecordArgs(page, rowid, int_pk_column, offset, selection, where) ==
    [page |-> page, rowid |-> rowid, int_pk_column |-> int_pk_column,
     initial_offset |-> offset, selection |-> selection, where |-> where]

\* the for loop over column_types, from column c (0-based) on; st holds the
\* moving offset and column_values
RECURSIVE columns_loop(_, _, _, _, _)
columns_loop(a, column_types, total_size, c, st) ==
    IF c >= Len(column_types)
    THEN RecordResult("ok", FALSE, st.values,
                      accepted_length(total_size, st.offset, a.initial_offset))
    ELSE LET column_serial_type == column_types[c + 1][1]
             size == column_types[c + 1][2]
             selected == c \in selection_keys(a.selection)
         IN  IF ~selected /\ (~a.where.some \/ c # a.where.col)
             THEN columns_loop(a, column_types, total_size, c + 1,
                               [st EXCEPT !.offset = @ + size])
             ELSE LET d == decode_value(a.page, st.offset, column_serial_type, c,
                                        a.int_pk_column, a.rowid)
                      offset2 == st.offset + size
                  IN  IF d.err
                      THEN RecordResult("struct.error", FALSE, st.values, 0)
                      ELSE IF a.where.some /\ c = a.where.col
                              /\ differs_from_text(d.value, a.where.text)
                      THEN RecordResult("ok", TRUE, <<>>,
                                        rejected_length(total_size, offset2, a.initial_offset))
                      ELSE IF selected
                      THEN LET order == selection_order(a.selection, c) IN
                           IF order >= Len(st.values)
                           THEN RecordResult("IndexError", FALSE, st.values, 0)
                           ELSE columns_loop(a, column_types, total_size, c + 1,
                                             [offset |-> offset2,
                                              values |-> [st.values EXCEPT ![order + 1] = d.value]])
                      ELSE columns_loop(a, column_types, total_size, c + 1,
                                        [st EXCEPT !.offset = offset2])

parse_record(page, rowid, int_pk_column, offset, selection, where) ==
    LET h == parse_varint(page, offset)
        header_size == py_int(h.n)
        header_end == offset + header_size
        hl == header_loop(page, offset + h.consumed, header_end, <<>>, header_size, {})
    IN  IF h.err THEN RecordResult("IndexError", FALSE, <<>>, 0)
        ELSE IF hl.status # "ok" THEN RecordResult(hl.status, FALSE, <<>>, 0)
        ELSE columns_loop(RecordArgs(page, rowid, int_pk_column, offset, selection, where),
                          hl.column_types, hl.total_size, 0,
                          [offset |-> hl.offset,
                           values |-> [j \in 1..column_values_len(selection) |-> PyNone]])

(***************************************************************************)
(* main(): the columns of the CREATE TABLE statement and the integer       *)
(* primary key alias                                                       *)
(***************************************************************************)

\* str.casefold() on the words the model uses
casefold(w) ==
    CASE w = "INTEGER" -> "integer"
      [] w = "Integer" -> "integer"
      [] w = "PRIMARY" -> "primary"
      [] w = "KEY" -> "key"
      [] w = "TEXT" -> "text"
      [] w = "ID" -> "id"
      [] w = "TYPE" -> "type"
      [] w = "A" -> "a"
      [] w = "B" -> "b"
      [] OTHER -> w

\* folded words that start with "key"
KeyPrefixed == {"key", "keys"}

\* column.type.casefold().startswith("integer primary key"), the type being
\* the words of the declared type joined by single spaces
starts_with_integer_primary_key(type) ==
    /\ Len(type) >= 3
    /\ casefold(type[1]) = "integer"
    /\ casefold(type[2]) = "primary"
    /\ casefold(type[3]) \in KeyPrefixed

\* int_pk_column is None
NoColumn == -1

\* the index of the first column declared an integer primary key, or None
primary_key_column_idx(columns) ==
    LET hits == { c \in 1..Len(columns) : starts_with_integer_primary_key(columns[c].type) }
    IN  IF hits = {} THEN NoColumn
        ELSE (CHOOSE c \in hits : \A d \in hits : c <= d) - 1

Column(name, type) == [name |-> name, type |-> type]

\* the tables of the model: id is the alias of the row id in the first two
TableIdAB == << Column("id", <<"INTEGER", "PRIMARY", "KEY">>),
                Column("a", <<"text">>), Column("b", <<"text">>) >>
TableAIdB == << Column("a", <<"TEXT">>),
                Column("id", <<"Integer", "primary", "key", "autoincrement">>),
                Column("b", <<"text">>) >>
TablePlain == << Column("id", <<"integer">>),
                 Column("a", <<"text">>), Column("b", <<"text">>) >>

(***************************************************************************)
(* Pages: get_page and parse_btree_header                                  *)
(***************************************************************************)

BTREE_PAGE_INTERIOR_INDEX == 2
BTREE_PAGE_INTERIOR_TABLE == 5
BTREE_PAGE_LEAF_INDEX == 10
BTREE_PAGE_LEAF_TABLE == 13

\* struct.unpack_from(">H") and (">I"): big-endian unsigned, -1 stands for
\* struct.error (the buffer is too short)
unpack_u16(page, offset) ==
    IF offset + 2 > Len(page) THEN -1
    ELSE from_bytes_unsigned(Slice(page, offset, offset + 2))

unpack_u32(page, offset) ==
    IF offset + 4 > Len(page) THEN -1
    ELSE from_bytes_unsigned(Slice(page, offset, offset + 4))

\* the page with the given id: file.seek((id_ - 1) * page_size) and a read
\* of page_size bytes, which is empty beyond the end of the file; a negative
\* position makes seek raise (err)
get_page(f, id_) ==
    IF id_ < 1 THEN [err |-> TRUE, page |-> <<>>]
    ELSE IF id_ > Len(f) THEN [err |-> FALSE, page |-> <<>>]
    ELSE [err |-> FALSE, page |-> f[id_]]

\* the offset of the B-tree header in the page
header_offset(is_first_page) == IF is_first_page THEN 100 ELSE 0

NoHeader ==
    [type |-> 0, first_freeblock |-> 0, cell_count |-> 0, cell_content_start |-> 0,
     fragmented_free_bytes |-> 0, rightmost_pointer |-> 0]

\* err is struct.error
parse_btree_header(page, is_first_page) ==
    LET offset == header_offset(is_first_page) IN
    IF offset + 8 > Len(page) THEN [err |-> TRUE, header |-> NoHeader, bytes_read |-> 0]
    ELSE LET type_ == page[offset + 1]
             interior == type_ \in {BTREE_PAGE_INTERIOR_INDEX, BTREE_PAGE_INTERIOR_TABLE}
             cell_content_start == unpack_u16(page, offset + 5)
         IN  IF interior /\ offset + 12 > Len(page)
             THEN [err |-> TRUE, header |-> NoHeader, bytes_read |-> 0]
             ELSE [err |-> FALSE,
                   header |-> [type |-> type_,
                               first_freeblock |-> unpack_u16(page, offset + 1),
                               cell_count |-> unpack_u16(page, offset + 3),
                               cell_content_start |->
                                   IF cell_content_start = 0 THEN 65536
                                   ELSE cell_content_start,
                               fragmented_free_bytes |-> page[offset + 8],
                               rightmost_pointer |->
                                   IF interior THEN unpack_u32(page, offset + 8) ELSE 0],
                   bytes_read |-> IF interior THEN 12 ELSE 8]

(***************************************************************************)
(* Specification of parse_record as a pure function: a leaf cell is built  *)
(* from a bounded list of columns, the projection and the filter are drawn *)
(* from bounded sets, one action applies the decoder.                      *)
(***************************************************************************)

\* most columns a record stores, longest projection
MaxCols == 3
MaxSel == 3

SeqsUpTo(S, n) == UNION { [1..k -> S] : k \in 0..n }

\* a stored column: its serial type and its bytes
Stored(st, body) == [st |-> st, body |-> body]

StoredNull == Stored(0, <<>>)
StoredPool == { StoredNull, Stored(1, <<5>>), Stored(15, <<120>>), Stored(15, <<121>>),
                Stored(14, <<120>>) }

\* records with the remaining kinds of value: a float, the constant 1, a
\* text that is not UTF-8, a two-byte UTF-8 character, a reserved type
OddRecords ==
    { << StoredNull, Stored(7, <<64, 9, 33, 251, 84, 68, 45, 24>>) >>,
      << Stored(9, <<>>), Stored(15, <<255>>) >>,
      << StoredNull, Stored(17, <<195, 169>>) >>,
      << StoredNull, Stored(10, <<>>) >> }

RECURSIVE Bodies(_)
Bodies(cols) == IF cols = <<>> THEN <<>> ELSE Head(cols).body \o Bodies(Tail(cols))

\* the bytes of a record: header length, serial types, column bytes
RecordBytes(cols) ==
    <<1 + Len(cols)>> \o [j \in 1..Len(cols) |-> cols[j].st] \o Bodies(cols)

\* the bytes of a leaf cell: payload size, row id, record
CellBytes(payload_size, rowid, cols) == <<payload_size, rowid>> \o RecordBytes(cols)

RecordRowId == 7

Selections == SeqsUpTo(0..(MaxCols - 1), MaxSel)
\* the text of a one-digit number
DigitText(d) == <<48 + d>>

\* no filter; the text "x" on the second and the first column; the texts
\* that spell the stored integer 5 and the row id
Wheres == {NoWhere, Where(1, <<120>>), Where(0, <<120>>),
           Where(1, DigitText(5)), Where(0, DigitText(RecordRowId))}

NoRecordInput ==
    [page |-> <<>>, rowid |-> 0, int_pk_column |-> NoColumn, offset |-> 0,
     selection |-> <<>>, where |-> NoWhere, cols |-> <<>>]
NoRecord == [called |-> FALSE] @@ RecordResult("ok", FALSE, <<>>, 0)


(***************************************************************************)
(* Specification of parse_varint as a pure function: the buffer and the    *)
(* offset are drawn from bounded sets, one action applies the decoder.     *)
(***************************************************************************)

\* longest run of continuation bytes put in front of the last byte
MaxCont == 9

\* continuation bytes (high bit set) and last bytes the buffers are built of
ContBytes == {128, 129, 255}
TailBytes == {0, 1, 127, 128, 131, 255}

Rep(k, c) == [j \in 1..k |-> c]

VarintBufs ==
    { Rep(k, c) \o <<t>> \o pad :
        k \in 0..MaxCont, c \in ContBytes, t \in TailBytes, pad \in {<<>>, <<0>>} }



(***************************************************************************)
(* Database files of the model.  A file is built from a description of its *)
(* pages: the header at offset 100 on page 1 and at offset 0 elsewhere,    *)
(* the cell pointer array behind it, the cells in a content area at the    *)
(* end of the page.  The bytes between the pointer array and the content   *)
(* area are unallocated: the format gives them no meaning, and they hold   *)
(* zeros or what an earlier state of the page left there.                  *)
(***************************************************************************)

\* most cells on a page
MaxCells == 2

\* longest cell of the model, start of the cell content area, page size
MaxCellLen == 13
CellBase == 112 + 2 * MaxCells
PageSize == CellBase + MaxCells * MaxCellLen

U16(x) == <<x \div 256, x % 256>>
U32(x) == <<0, 0, x \div 256, x % 256>>

Patch(page, offset, bytes) ==
    [j \in 1..Len(page) |->
        IF j > offset /\ j <= offset + Len(bytes) THEN bytes[j - offset] ELSE page[j]]

CellAt(k) == CellBase + (k - 1) * MaxCellLen

\* the description of a page: type byte, cell count field, cells, rightmost
PageDesc(type, count, cells, rightmost) ==
    [type |-> type, count |-> count, cells |-> cells, rightmost |-> rightmost]

LeafDesc(cells) == PageDesc(BTREE_PAGE_LEAF_TABLE, Len(cells), cells, 0)
InteriorDesc(cells, rightmost) ==
    PageDesc(BTREE_PAGE_INTERIOR_TABLE, Len(cells), cells, rightmost)

\* an interior cell: left child and key
InteriorCell(left, key) == U32(left) \o <<key>>

HeaderBytes(d) ==
    <<d.type, 0, 0>> \o U16(d.count) \o U16(CellBase) \o <<0>> \o
    (IF d.type \in {BTREE_PAGE_INTERIOR_INDEX, BTREE_PAGE_INTERIOR_TABLE}
     THEN U32(d.rightmost) ELSE <<>>)

RECURSIVE PointerBytes(_, _)
PointerBytes(order, k) ==
    IF k > Len(order) THEN <<>> ELSE U16(CellAt(order[k])) \o PointerBytes(order, k + 1)

RECURSIVE PatchCells(_, _, _)
PatchCells(page, cells, k) ==
    IF k > Len(cells) THEN page
    ELSE PatchCells(Patch(page, CellAt(k), cells[k]), cells, k + 1)

\* the header of d and a pointer array in the given order, at offset h
PatchHeader(page, h, d, order) ==
    Patch(page, h, HeaderBytes(d) \o PointerBytes(order, 1))

Forward(n) == [k \in 1..n |-> k]
Backward(n) == [k \in 1..n |-> n + 1 - k]

\* the bytes of page id_.  stale says what the unallocated bytes from
\* offset 100 on hold on a page other than page 1: "zeros", or "old", a
\* former header of the page with the pointers in the opposite order
PageBytes(id_, d, stale) ==
    LET blank == [j \in 1..PageSize |-> 0]
        cells == PatchCells(blank, d.cells, 1)
    IN  IF id_ = 1 THEN PatchHeader(cells, 100, d, Forward(Len(d.cells)))
        ELSE LET p == PatchHeader(cells, 0, d, Forward(Len(d.cells)))
             IN  IF stale = "old" /\ d.type = BTREE_PAGE_LEAF_TABLE
                 THEN PatchHeader(p, 100, d, Backward(Len(d.cells)))
                 ELSE p

FileBytes(descs, stale) == [id_ \in 1..Len(descs) |-> PageBytes(id_, descs[id_], stale)]

\* the stored columns of the row with the given row id.  In sqlite_schema
\* rows: type, name, tbl_name, rootpage, sql.  In user rows: id (stored as
\* NULL, the row id is its value), a, b; "short" rows were written before
\* columns a and b were added, "plain" rows store an id of their own.
StoredText(rowid) == Stored(15, IF rowid % 2 = 1 THEN <<120>> ELSE <<121>>)

RowCols(kind, rowid) ==
    CASE kind = "schema" ->
            << Stored(15, <<116>>), StoredText(rowid), StoredText(rowid),
               Stored(1, <<2>>), Stored(15, <<115>>) >>
      [] kind = "full" -> << StoredNull, StoredText(rowid), Stored(15, <<122>>) >>
      [] kind = "short" -> << StoredNull >>
      [] kind = "plain" -> << Stored(1, <<5>>), StoredText(rowid) >>

\* a row of a table, and its leaf cell; slack is added to the payload size
Row(kind, rowid) == [rowid |-> rowid, cols |-> RowCols(kind, rowid)]
LeafCell(row, slack) == CellBytes(Len(RecordBytes(row.cols)) + slack, row.rowid, row.cols)

\* the rows with the ids lo..hi in key order, and a leaf page holding them
Rows(kind, lo, hi) == [k \in 1..(hi + 1 - lo) |-> Row(kind, lo + k - 1)]
LeafOf(rows) == LeafDesc([k \in 1..Len(rows) |-> LeafCell(rows[k], 0)])

\* a table: the descriptions of its pages from the root page on, and its
\* rows in key order
TableDesc(pages, rows) == [pages |-> pages, rows |-> rows]

\* a root page that is a leaf with n rows
LeafTable(kind, n) == TableDesc(<<LeafOf(Rows(kind, 1, n))>>, Rows(kind, 1, n))

\* a leaf root whose last row declares a payload size one too large
SlackTable(kind, n) ==
    LET rows == Rows(kind, 1, n) IN
    TableDesc(<< LeafDesc([k \in 1..n |-> LeafCell(rows[k], IF k = n THEN 1 ELSE 0)]) >>,
              rows)

\* an interior root at page r with k left children and a rightmost child,
\* all leaves of m rows
InteriorTable(kind, r, k, m) ==
    LET rows == Rows(kind, 1, (k + 1) * m)
        leaf(c) == LeafOf(SubSeq(rows, (c - 1) * m + 1, c * m))
    IN  TableDesc(<< InteriorDesc([c \in 1..k |-> InteriorCell(r + c, c * m)], r + k + 1) >>
                  \o [c \in 1..(k + 1) |-> leaf(c)], rows)

\* three levels: the root's left child is an interior page with two leaves
DeepTable(kind, r) ==
    LET rows == Rows(kind, 1, 3) IN
    TableDesc(<< InteriorDesc(<<InteriorCell(r + 1, 2)>>, r + 4),
                 InteriorDesc(<<InteriorCell(r + 2, 1)>>, r + 3),
                 LeafOf(SubSeq(rows, 1, 1)), LeafOf(SubSeq(rows, 2, 2)),
                 LeafOf(SubSeq(rows, 3, 3)) >>, rows)

\* an interior root whose left child is a page of another type with the
\* given cell count field, and whose rightmost child is a leaf with one row
OddChildTable(kind, r, type, count) ==
    LET rows == Rows(kind, 1, 1) IN
    TableDesc(<< InteriorDesc(<<InteriorCell(r + 1, 0)>>, r + 2),
                 PageDesc(type, count, <<>>, 0), LeafOf(rows) >>, rows)

\* a root page of another type
OddRootTable(type, count) == TableDesc(<<PageDesc(type, count, <<>>, 0)>>, <<>>)

OddTypes == {BTREE_PAGE_LEAF_INDEX, BTREE_PAGE_INTERIOR_INDEX, 0}

Tables(kind, r) ==
    { LeafTable(kind, n) : n \in 0..MaxCells }
    \cup { SlackTable(kind, n) : n \in 1..MaxCells }
    \cup { InteriorTable(kind, r, k, m) : k \in 0..MaxCells, m \in 1..MaxCells }
    \cup { DeepTable(kind, r) }
    \cup { OddChildTable(kind, r, t, c) : t \in OddTypes, c \in 0..1 }
    \cup { OddRootTable(t, c) : t \in OddTypes, c \in 0..1 }

\* the page of sqlite_schema in a file with one user table rooted at page 2
SchemaPage == LeafOf(Rows("schema", 1, 1))

\* the databases: sqlite_schema itself as the table (root page 1), or a user
\* table rooted at page 2
SchemaDatabases ==
    { [rootpage |-> 1, table |-> t, file |-> FileBytes(t.pages, stale)] :
        t \in Tables("schema", 1), stale \in {"zeros", "old"} }

UserDatabases ==
    { [rootpage |-> 2, table |-> t, file |-> FileBytes(<<SchemaPage>> \o t.pages, stale)] :
        t \in UNION { Tables(kind, 2) : kind \in {"full", "short", "plain"} },
        stale \in {"zeros", "old"} }

(***************************************************************************)
(* The statement of the command, as app/parser.py hands it to main()       *)
(***************************************************************************)

StarExpr == [e |-> "StarExpr", name |-> "", args |-> <<>>]
NameExpr(name) == [e |-> "NameExpr", name |-> name, args |-> <<>>]
FunctionExpr(name, args) == [e |-> "FunctionExpr", name |-> name, args |-> args]

NoWhereExpr == [some |-> FALSE, name |-> "", text |-> <<>>]
WhereExpr(name, text) == [some |-> TRUE, name |-> name, text |-> text]

\* the synthetic schema row main uses for sqlite_schema and its aliases
SqliteSchemaColumns ==
    << Column("type", <<"text">>), Column("name", <<"text">>),
       Column("tbl_name", <<"text">>), Column("rootpage", <<"integer">>),
       Column("sql", <<"text">>) >>

\* the keys of column_order, and the index a name maps to (a later column
\* of the same folded name replaces an earlier one); -1 is KeyError
column_order_keys(columns) == { casefold(columns[c].name) : c \in 1..Len(columns) }

column_order(columns, name) ==
    LET hits == { c \in 1..Len(columns) : casefold(columns[c].name) = casefold(name) }
    IN  IF hits = {} THEN -1
        ELSE (CHOOSE c \in hits : \A d \in hits : d <= c) - 1

is_count_star(selects) ==
    /\ Len(selects) = 1
    /\ selects[1].e = "FunctionExpr"
    /\ selects[1].name = "COUNT"
    /\ Len(selects[1].args) = 1
    /\ selects[1].args[1].e = "StarExpr"

\* selected_columns of the try block: kind "ok" with the list, "unsupported"
\* (not all selects are names) or "KeyError" (a name is not a column)
selected_columns(selects, columns) ==
    IF Len(selects) = 1 /\ selects[1].e = "StarExpr"
    THEN [kind |-> "ok",
          list |-> [k \in 1..Cardinality(column_order_keys(columns)) |-> k - 1]]
    ELSE IF is_count_star(selects) THEN [kind |-> "ok", list |-> <<>>]
    ELSE IF \E k \in 1..Len(selects) : selects[k].e # "NameExpr"
    THEN [kind |-> "unsupported", list |-> <<>>]
    ELSE IF \E k \in 1..Len(selects) : column_order(columns, selects[k].name) = -1
    THEN [kind |-> "KeyError", list |-> <<>>]
    ELSE [kind |-> "ok",
          list |-> [k \in 1..Len(selects) |-> column_order(columns, selects[k].name)]]

\* the where tuple main builds; -1 in col is the KeyError of the lookup
where_tuple(w, columns) ==
    IF ~w.some THEN NoWhere ELSE Where(column_order(columns, w.name), w.text)

TableInfo(rootpage, int_pk_column) ==
    [rootpage |-> rootpage, int_pk_column |-> int_pk_column]

NoPlan ==
    [table_info |-> TableInfo(0, NoColumn), selection |-> <<>>, where |-> NoWhere,
     is_count_star |-> FALSE]

\* nothing written, main has not returned, no exception, i = -1
NoOut == [stdout |-> <<>>, stderr |-> <<>>, exit |-> -1, exc |-> "", i |-> -1]

(***************************************************************************)
(* read_table and _read_table: one frame per active call                   *)
(***************************************************************************)

\* a call of _read_table that has not run yet
Frame(page_id) ==
    [page_id |-> page_id, at |-> "enter", header |-> NoHeader, btree_offset |-> 0,
     done |-> 0]

\* the is_first_page argument _read_table passes to parse_btree_header
is_first_page(table_info, page_id) == table_info.rootpage = 1

\* the offset of the cell pointer array
pointer_array_offset(table_info, page_id, bytes_read) ==
    IF table_info.rootpage = 1 THEN bytes_read + 100 ELSE bytes_read

\* the assert on the payload size is reached for this column_values
payload_asserted(none) == TRUE

NoCell ==
    [page_id |-> 0, offset |-> 0, rowid |-> 0, payload_size |-> 0, bytes_read |-> 0,
     none |-> FALSE, asserted |-> FALSE]

Top == stack[Len(stack)]
TopPage == get_page(file, Top.page_id).page
Pop == SubSeq(stack, 1, Len(stack) - 1)
SetTop(f) == [stack EXCEPT ![Len(stack)] = f]

Raise(exc) ==
    /\ pc' = "raised"
    /\ out' = [out EXCEPT !.exc = exc]

\* main() up to the call of read_table
Main ==
    /\ pc = "start" /\ cmd.kind = "select"
    /\ LET root == get_page(file, cmd.rootpage)
           hdr == parse_btree_header(root.page, cmd.rootpage = 1)
           sel == selected_columns(cmd.selects, cmd.columns)
           w == where_tuple(cmd.where, cmd.columns)
           info == TableInfo(cmd.rootpage, primary_key_column_idx(cmd.columns))
       IN  IF root.err THEN Raise("OSError") /\ UNCHANGED <<plan, stack>>
           ELSE IF hdr.err THEN Raise("struct.error") /\ UNCHANGED <<plan, stack>>
           ELSE IF sel.kind = "unsupported"
           THEN /\ pc' = "done"
                /\ out' = [out EXCEPT !.stderr = <<"Only simple queries are supported">>,
                                      !.exit = 1]
                /\ UNCHANGED <<plan, stack>>
           ELSE IF sel.kind = "KeyError"
           THEN /\ pc' = "done"
                /\ out' = [out EXCEPT !.stderr = <<"Unknown column">>, !.exit = 1]
                /\ UNCHANGED <<plan, stack>>
           ELSE IF w.some /\ w.col = -1
           THEN Raise("KeyError") /\ UNCHANGED <<plan, stack>>
           ELSE /\ plan' = [table_info |-> info, selection |-> sel.list, where |-> w,
                            is_count_star |-> is_count_star(cmd.selects)]
                /\ stack' = <<Frame(cmd.rootpage)>>
                /\ pc' = "scan"
                /\ UNCHANGED out
    /\ UNCHANGED <<file, truth, cmd, visited, emitted, cell>>
    /\ UNCHANGED pvars

\* select_all_from_sqlite_schema up to the call of read_table
SelectAllFromSqliteSchema ==
    /\ pc = "start" /\ cmd.kind = "schema"
    /\ plan' = [table_info |-> TableInfo(1, NoColumn), selection |-> <<0, 1, 2, 3, 4>>,
                where |-> NoWhere, is_count_star |-> FALSE]
    /\ stack' = <<Frame(1)>>
    /\ pc' = "scan"
    /\ UNCHANGED <<file, truth, cmd, visited, emitted, cell, out>>
    /\ UNCHANGED pvars

\* the start of a call of _read_table: the header of its page
EnterPage ==
    /\ pc = "scan" /\ stack # <<>> /\ Top.at = "enter"
    /\ LET first == is_first_page(plan.table_info, Top.page_id)
           hdr == parse_btree_header(TopPage, first)
       IN  IF hdr.err
           THEN Raise("struct.error") /\ UNCHANGED <<stack, visited>>
           ELSE /\ stack' = SetTop([Top EXCEPT
                                      !.at = "cells", !.header = hdr.header,
                                      !.btree_offset = pointer_array_offset(
                                          plan.table_info, Top.page_id, hdr.bytes_read)])
                /\ visited' = Append(visited, [page_id |-> Top.page_id,
                                               offset |-> header_offset(first),
                                               pointers |-> pointer_array_offset(
                                                   plan.table_info, Top.page_id,
                                                   hdr.bytes_read),
                                               bytes_read |-> hdr.bytes_read,
                                               type |-> hdr.header.type,
                                               cell_count |-> hdr.header.cell_count])
                /\ UNCHANGED <<pc, out>>
    /\ UNCHANGED <<file, truth, cmd, plan, emitted, cell>>
    /\ UNCHANGED pvars

\* a loop iteration on an interior table page: the call for the left child
ReadInteriorCell ==
    /\ pc = "scan" /\ stack # <<>> /\ Top.at = "cells"
    /\ Top.done < Top.header.cell_count
    /\ Top.header.type = BTREE_PAGE_INTERIOR_TABLE
    /\ LET cell_content_offset == unpack_u16(TopPage, Top.btree_offset)
           left_ptr == unpack_u32(TopPage, cell_content_offset)
       IN  IF cell_content_offset = -1 \/ left_ptr = -1
           THEN Raise("struct.error") /\ UNCHANGED stack
           ELSE IF get_page(file, left_ptr).err
           THEN Raise("OSError") /\ UNCHANGED stack
           ELSE /\ stack' = Append(SetTop([Top EXCEPT !.done = @ + 1,
                                                      !.btree_offset = @ + 2]),
                                   Frame(left_ptr))
                /\ UNCHANGED <<pc, out>>
    /\ UNCHANGED <<file, truth, cmd, plan, visited, emitted, cell>>
    /\ UNCHANGED pvars

\* the consumer of a yielded row: main counts it (COUNT(*)) or prints it,
\* select_all_from_sqlite_schema wraps it for its caller
Consumed(values) ==
    IF cmd.kind # "select" THEN out
    ELSE IF plan.is_count_star THEN [out EXCEPT !.i = Len(emitted)]
    ELSE [out EXCEPT !.stdout = Append(@, values)]

\* a loop iteration on a page that is not an interior table page: the cell
\* is read as a leaf table cell
ReadLeafCell ==
    /\ pc = "scan" /\ stack # <<>> /\ Top.at = "cells"
    /\ Top.done < Top.header.cell_count
    /\ Top.header.type # BTREE_PAGE_INTERIOR_TABLE
    /\ LET cell_content_offset == unpack_u16(TopPage, Top.btree_offset)
           p == parse_varint(TopPage, cell_content_offset)
           payload_size == py_int(p.n)
           r == parse_varint(TopPage, cell_content_offset + p.consumed)
           rowid == py_int(r.n)
           offset == cell_content_offset + p.consumed + r.consumed
           rec == parse_record(TopPage, rowid, plan.table_info.int_pk_column, offset,
                               plan.selection, plan.where)
           next == SetTop([Top EXCEPT !.done = @ + 1, !.btree_offset = @ + 2])
           this == [page_id |-> Top.page_id, offset |-> offset, rowid |-> rowid,
                    payload_size |-> payload_size, bytes_read |-> rec.length,
                    none |-> rec.none, asserted |-> payload_asserted(rec.none)]
       IN  IF cell_content_offset = -1
           THEN Raise("struct.error") /\ UNCHANGED <<stack, emitted, cell>>
           ELSE IF Top.header.type # BTREE_PAGE_LEAF_TABLE
           THEN Raise("AssertionError") /\ UNCHANGED <<stack, emitted, cell>>
           ELSE IF p.err \/ r.err
           THEN Raise("IndexError") /\ UNCHANGED <<stack, emitted, cell>>
           ELSE IF rec.status = "diverges"
           THEN pc' = "hung" /\ UNCHANGED <<stack, emitted, cell, out>>
           ELSE IF rec.status # "ok"
           THEN Raise(rec.status) /\ UNCHANGED <<stack, emitted, cell>>
           ELSE IF payload_asserted(rec.none) /\ rec.length # payload_size
           THEN Raise("AssertionError") /\ cell' = this /\ UNCHANGED <<stack, emitted>>
           ELSE IF rec.none
           THEN stack' = next /\ cell' = this /\ UNCHANGED <<pc, out, emitted>>
           ELSE /\ stack' = next
                /\ cell' = this
                /\ emitted' = Append(emitted, [rowid |-> rowid, page_id |-> Top.page_id,
                                               values |-> rec.values])
                /\ out' = Consumed(rec.values)
                /\ UNCHANGED pc
    /\ UNCHANGED <<file, truth, cmd, plan, visited>>
    /\ UNCHANGED pvars

\* after the loop on an interior table page: the call for the rightmost child
DescendRightmost ==
    /\ pc = "scan" /\ stack # <<>> /\ Top.at = "cells"
    /\ Top.done >= Top.header.cell_count
    /\ Top.header.type = BTREE_PAGE_INTERIOR_TABLE
    /\ IF get_page(file, Top.header.rightmost_pointer).err
       THEN Raise("OSError") /\ UNCHANGED stack
       ELSE /\ stack' = Append(SetTop([Top EXCEPT !.at = "after"]),
                               Frame(Top.header.rightmost_pointer))
            /\ UNCHANGED <<pc, out>>
    /\ UNCHANGED <<file, truth, cmd, plan, visited, emitted, cell>>
    /\ UNCHANGED pvars

\* the end of a call of _read_table
Return ==
    /\ pc = "scan" /\ stack # <<>>
    /\ \/ Top.at = "after"
       \/ /\ Top.at = "cells"
          /\ Top.done >= Top.header.cell_count
          /\ Top.header.type # BTREE_PAGE_INTERIOR_TABLE
    /\ stack' = Pop
    /\ UNCHANGED <<file, truth, cmd, plan, pc, visited, emitted, cell, out>>
    /\ UNCHANGED pvars

\* the scan is exhausted: main prints the count of a COUNT(*) and returns 0
Finish ==
    /\ pc = "scan" /\ stack = <<>>
    /\ pc' = "done"
    /\ out' = IF cmd.kind # "select" THEN out
              ELSE IF plan.is_count_star
              THEN [out EXCEPT !.stdout = Append(@, <<PyInt(out.i + 1)>>), !.exit = 0]
              ELSE [out EXCEPT !.exit = 0]
    /\ UNCHANGED <<file, truth, cmd, plan, stack, visited, emitted, cell>>
    /\ UNCHANGED pvars

(***************************************************************************)
(* The commands of the model and the specification of a run                *)
(***************************************************************************)

XText == <<120>>

\* the statements put to a table whose columns include name1 and name2,
\* name1 also spelled otherwise as alias1; "zz" is no column of any table
Statements(name1, alias1, name2) ==
    { [selects |-> sel, where |-> w] :
        sel \in { <<StarExpr>>,
                  <<FunctionExpr("COUNT", <<StarExpr>>)>>,
                  <<FunctionExpr("MAX", <<NameExpr(name2)>>)>>,
                  <<NameExpr(name2)>>,
                  <<NameExpr(alias1), NameExpr(name2)>>,
                  <<NameExpr(name2), NameExpr(name2)>>,
                  <<NameExpr(name1), NameExpr(name1), NameExpr(name2)>>,
                  <<NameExpr("zz")>> },
        w \in { NoWhereExpr, WhereExpr(name2, XText), WhereExpr("zz", XText) } }

Commands(rootpage) ==
    IF rootpage = 1
    THEN { [kind |-> "schema", rootpage |-> 1, columns |-> SqliteSchemaColumns,
            selects |-> <<>>, where |-> NoWhereExpr] }
         \cup { [kind |-> "select", rootpage |-> 1, columns |-> SqliteSchemaColumns,
                 selects |-> q.selects, where |-> q.where] :
                q \in Statements("type", "TYPE", "name") }
    ELSE { [kind |-> "select", rootpage |-> rootpage, columns |-> columns,
            selects |-> q.selects, where |-> q.where] :
           q \in Statements("id", "ID", "a"), columns \in {TableIdAB, TablePlain} }

Init ==
    /\ \E db \in SchemaDatabases \cup UserDatabases :
          /\ file = db.file
          /\ truth = db.table.rows
          /\ cmd \in Commands(db.rootpage)
    /\ plan = NoPlan
    /\ pc = "start"
    /\ stack = <<>>
    /\ visited = <<>>
    /\ emitted = <<>>
    /\ cell = NoCell
    /\ out = NoOut
    /\ buf = <<>> /\ at = 0 /\ vres = NoVarint
    /\ rin = NoRecordInput /\ rres = NoRecord

Next ==
    \/ Main
    \/ SelectAllFromSqliteSchema
    \/ EnterPage
    \/ ReadInteriorCell
    \/ ReadLeafCell
    \/ DescendRightmost
    \/ Return
    \/ Finish

Spec == Init /\ [][Next]_vars


(***************************************************************************)
(* The specifications of the two decoders as pure functions                *)
(***************************************************************************)

NoCmd ==
    [kind |-> "none", rootpage |-> 0, columns |-> <<>>, selects |-> <<>>,
     where |-> NoWhereExpr]

\* no database, no command
NoScan ==
    /\ file = <<>> /\ truth = <<>> /\ cmd = NoCmd /\ plan = NoPlan /\ pc = "idle"
    /\ stack = <<>> /\ visited = <<>> /\ emitted = <<>> /\ cell = NoCell /\ out = NoOut

InitRecord ==
    /\ \E cols \in SeqsUpTo(StoredPool, MaxCols) \cup OddRecords,
          columns \in {TableIdAB, TableAIdB, TablePlain},
          sel \in Selections, w \in Wheres :
          rin = [page |-> CellBytes(Len(RecordBytes(cols)), RecordRowId, cols),
                 rowid |-> RecordRowId,
                 int_pk_column |-> primary_key_column_idx(columns),
                 offset |-> 2, selection |-> sel, where |-> w, cols |-> cols]
    /\ rres = NoRecord
    /\ buf = <<>> /\ at = 0 /\ vres = NoVarint
    /\ NoScan

ParseRecord ==
    /\ ~rres.called
    /\ rres' = [called |-> TRUE] @@
               parse_record(rin.page, rin.rowid, rin.int_pk_column, rin.offset,
                            rin.selection, rin.where)
    /\ UNCHANGED <<buf, at, vres, rin>>
    /\ UNCHANGED svars

NextRecord == ParseRecord

SpecRecord == InitRecord /\ [][NextRecord]_vars

InitVarint ==
    /\ \E lead \in {<<>>, <<255>>}, body \in VarintBufs :
          /\ buf = lead \o body
          /\ at = Len(lead)
    /\ vres = NoVarint
    /\ rin = NoRecordInput /\ rres = NoRecord
    /\ NoScan

DecodeVarint ==
    /\ ~vres.called
    /\ vres' = [called |-> TRUE] @@ parse_varint(buf, at)
    /\ UNCHANGED <<buf, at, rin, rres>>
    /\ UNCHANGED svars

NextVarint == DecodeVarint

SpecVarint == InitVarint /\ [][NextVarint]_vars

(***************************************************************************)
(* The specification of parse_record on any page content: the bytes at the *)
(* record offset are drawn from a bounded set, well formed or not.         *)
(***************************************************************************)

\* longest page content drawn byte by byte
MaxRaw == 4

\* bytes that are a header length, a serial type, and the first byte of a
\* two-byte varint
RawBytes == {0, 1, 2, 3, 129}

\* a header length followed by a varint whose nine bytes all have the high
\* bit set
NineBytePages ==
    { <<h>> \o Rep(MaxCont, 255) \o t : h \in {2, 12}, t \in {<<>>, <<1>>} }

RawPages == (SeqsUpTo(RawBytes, MaxRaw) \ {<<>>}) \cup NineBytePages

InitHeader ==
    /\ \E lead \in {<<>>, <<1>>}, body \in RawPages :
          rin = [page |-> lead \o body, rowid |-> RecordRowId, int_pk_column |-> NoColumn,
                 offset |-> Len(lead), selection |-> <<>>, where |-> NoWhere,
                 cols |-> <<>>]
    /\ rres = NoRecord
    /\ buf = <<>> /\ at = 0 /\ vres = NoVarint
    /\ NoScan

NextHeader == ParseRecord

SpecHeader == InitHeader /\ [][NextHeader]_vars

(***************************************************************************)
(* Claims about parse_varint                                               *)
(***************************************************************************)

\* n <<= 8; n |= d     (d < 256): what a ninth byte contributes in the format
Shl8Or(n, d) ==
    LET lo == n[3] * 256 + d
        mi == n[2] * 256 + (lo \div Limb)
        hi == n[1] * 256 + (mi \div Limb)
    IN  <<hi, mi % Limb, lo % Limb>>

\* the value the file format gives the varint that starts at b[offset]:
\* 7 bits of each of the first 8 bytes up to the first byte with a clear
\* high bit, and all 8 bits of a ninth byte
RECURSIVE FormatValue(_, _, _, _)
FormatValue(b, offset, k, n) ==
    LET byte == ByteAt(b, offset + k) IN
    IF k = 8 THEN Shl8Or(n, byte)
    ELSE IF byte < 128 THEN Shl7Or(n, byte)
    ELSE FormatValue(b, offset, k + 1, Shl7Or(n, byte % 128))

\* the number of bytes the decoder looked at: up to and including the first
\* byte with a clear high bit, nine when the first eight all have it set
RECURSIVE BytesLookedAt(_, _, _)
BytesLookedAt(b, offset, k) ==
    IF k = 8 \/ ByteAt(b, offset + k) < 128 THEN k + 1
    ELSE BytesLookedAt(b, offset, k + 1)

\* 2^64 - 1 and 2^63 - 1 as limbs
Max64 == <<4194303, 2097151, 2097151>>
Max63 == <<2097151, 2097151, 2097151>>

\* C7: parse_varint returns the format's value: 7 bits of each of the first
\* eight bytes and all 8 bits of the ninth; nine 0xFF bytes give 2^64 - 1.
C7_VarintValue ==
    (vres.called /\ ~vres.err) =>
        /\ vres.n = FormatValue(buf, at, 0, Zero)
        /\ (buf = Rep(9, 255) /\ at = 0) => vres.n = Max64

\* C8: the consumed count parse_varint returns is in 1..9 and is the number
\* of bytes it read, so offset + consumed is strictly beyond offset.
C8_VarintConsumed ==
    (vres.called /\ ~vres.err) =>
        /\ vres.consumed \in 1..9
        /\ vres.consumed = BytesLookedAt(buf, at, 0)
        /\ at + vres.consumed > at


(***************************************************************************)
(* Claims about parse_record                                               *)
(***************************************************************************)

\* the value a stored column stands for
StoredValue(stored, column_id, int_pk_column, rowid) ==
    IF stored.st = 0 THEN (IF column_id = int_pk_column THEN PyInt(rowid) ELSE PyNone)
    ELSE IF stored.st \in 1..6 THEN PyInt(from_bytes_signed(stored.body))
    ELSE IF stored.st = 7 THEN PyTuple(stored.body)
    ELSE IF stored.st \in {8, 9} THEN PyInt(stored.st - 8)
    ELSE IF stored.st % 2 = 0 THEN PyBytes(stored.body)
    ELSE IF utf8_ok(stored.body) THEN PyStr(utf8_chars(stored.body))
    ELSE PyBytes(stored.body)

\* the value of column column_id of the record in rin; a column the record
\* does not store has no value
ColumnValue(column_id) ==
    IF column_id < Len(rin.cols)
    THEN StoredValue(rin.cols[column_id + 1], column_id, rin.int_pk_column, rin.rowid)
    ELSE PyNone

\* every serial type of the record in rin is one the format defines
RecordWellFormed == \A c \in 1..Len(rin.cols) : size_for_type(rin.cols[c].st) # -1

\* C4: for every record and projection (also one naming a column twice)
\* parse_record returns None or a list as long as the projection whose k-th
\* element is the value of the k-th projected column.
C4_ProjectionShape ==
    (rres.called /\ RecordWellFormed) =>
        /\ rres.status = "ok"
        /\ \/ rres.none
           \/ /\ Len(rres.values) = Len(rin.selection)
              /\ \A k \in 1..Len(rin.selection) :
                    rres.values[k] = ColumnValue(rin.selection[k])

\* C5: in every emitted row a projected column stored with serial type 0
\* holds the row id if it is the integer primary key column, None otherwise.
C5_RowIdAlias ==
    (rres.called /\ rres.status = "ok" /\ ~rres.none) =>
        \A k \in 1..Len(rin.selection) :
            LET c == rin.selection[k] IN
            (c < Len(rin.cols) /\ rin.cols[c + 1].st = 0) =>
                /\ k <= Len(rres.values)
                /\ rres.values[k] = IF c = rin.int_pk_column THEN PyInt(rin.rowid)
                                    ELSE PyNone

\* the value equals the literal text without any conversion: it is a text
\* and has the same characters
EqualsText(value, text) == value.k = "str" /\ value.b = text

\* C11: with an equality filter parse_record lets through exactly the
\* records whose value in the filter column equals the literal text, no
\* integer, NULL, row id or blob ever matching; and every element of a row
\* let through is the value of a projected column, so the value of a filter
\* column outside the projection is compared but not emitted.
C11_EqualityFilter ==
    (rres.called /\ rin.where.some /\ RecordWellFormed /\ rres.status = "ok") =>
        /\ ~rres.none <=> EqualsText(ColumnValue(rin.where.col), rin.where.text)
        /\ (~rres.none /\ rin.where.col \notin selection_keys(rin.selection)) =>
               \A j \in 1..Len(rres.values) :
                   \E k \in 1..Len(rin.selection) :
                       rres.values[j] = ColumnValue(rin.selection[k])

\* the header of the record in rin: its length varint, where it ends, and
\* the run of the serial-type loop on it
HeaderSize == parse_varint(rin.page, rin.offset)
HeaderEnd == rin.offset + py_int(HeaderSize.n)
HeaderRun ==
    header_loop(rin.page, rin.offset + HeaderSize.consumed, HeaderEnd, <<>>,
                py_int(HeaderSize.n), {})

\* C12: on any page content the serial-type loop of parse_record ends; when
\* it ends normally the offset is the record start plus the header length;
\* it reads no serial type at or past the header end and never moves its
\* offset backwards.
C12_HeaderLoop ==
    (rres.called /\ ~HeaderSize.err) =>
        /\ HeaderRun.status # "diverges"
        /\ HeaderRun.status = "ok" =>
               HeaderRun.offset = rin.offset + py_int(HeaderSize.n)
        /\ \A o \in HeaderRun.reads :
               /\ o < HeaderEnd
               /\ ~parse_varint(rin.page, o).err =>
                      o + parse_varint(rin.page, o).consumed >= o
(***************************************************************************)

\* the row ids of the table are in ascending key order
KeysOrdered ==
    \A j, k \in 1..Len(truth) : j < k => truth[j].rowid < truth[k].rowid

\* the row of the table passes the filter of the plan
PassesFilter(row) ==
    plan.where.some =>
        /\ plan.where.col < Len(row.cols)
        /\ ~differs_from_text(StoredValue(row.cols[plan.where.col + 1], plan.where.col,
                                          plan.table_info.int_pk_column, row.rowid),
                              plan.where.text)

\* C1: a scan emits the rows of the table in depth-first key order (the
\* subtree of cell i before that of cell i+1, the rightmost subtree last,
\* a leaf in pointer order), so the emitted row ids of a table with ordered
\* keys are strictly increasing.
C1_KeyOrder ==
    KeysOrdered =>
        \A j, k \in 1..Len(emitted) : j < k => emitted[j].rowid < emitted[k].rowid

\* C2: the header of every visited page is decoded at offset 100 exactly
\* when the page is page 1, at offset 0 otherwise, and the cell pointer
\* array is read right behind that header.
C2_HeaderOffset ==
    \A k \in 1..Len(visited) :
        /\ visited[k].offset = (IF visited[k].page_id = 1 THEN 100 ELSE 0)
        /\ visited[k].pointers = visited[k].offset + visited[k].bytes_read

\* C3: SELECT COUNT(*) prints the number of rows in the leaves of the whole
\* table B-tree that pass the filter.
C3_CountStar ==
    (pc = "done" /\ cmd.kind = "select" /\ plan.is_count_star /\ out.exit = 0) =>
        out.stdout =
            << <<PyInt(Cardinality({ k \in 1..Len(truth) : PassesFilter(truth[k]) }))>> >>

\* the statement has a shape main supports
Supported ==
    \/ (Len(cmd.selects) = 1 /\ cmd.selects[1].e = "StarExpr")
    \/ is_count_star(cmd.selects)
    \/ \A k \in 1..Len(cmd.selects) : cmd.selects[k].e = "NameExpr"

\* the statement names a column the table does not have
NamesUnknownColumn ==
    \/ \E k \in 1..Len(cmd.selects) :
          /\ cmd.selects[k].e = "NameExpr"
          /\ casefold(cmd.selects[k].name) \notin column_order_keys(cmd.columns)
    \/ /\ cmd.where.some
       /\ casefold(cmd.where.name) \notin column_order_keys(cmd.columns)

\* C6: a query naming an unknown column, in the select list or in WHERE,
\* ends with one stderr line and exit status 1, prints no row and raises
\* no exception.
C6_UnknownColumn ==
    (cmd.kind = "select" /\ Supported /\ NamesUnknownColumn /\ pc \notin {"start", "scan"}) =>
        /\ pc = "done"
        /\ out.exit = 1
        /\ out.stderr = <<"Unknown column">>
        /\ out.stdout = <<>>

\* C9: a scan that reaches a page whose type is not InteriorTable or
\* LeafTable ends in an error, whatever the page's cell count.
C9_OddPageType ==
    pc = "done" =>
        \A k \in 1..Len(visited) :
            visited[k].type \in {BTREE_PAGE_INTERIOR_TABLE, BTREE_PAGE_LEAF_TABLE}

\* the length of the record at the offset: header length plus the widths of
\* all columns of the header
RecordLength(page, offset) ==
    LET h == parse_varint(page, offset)
    IN  header_loop(page, offset + h.consumed, offset + py_int(h.n), <<>>,
                    py_int(h.n), {}).total_size

\* C10: for every leaf cell parse_record returned for, emitted or rejected,
\* the payload size is compared with the decoded record length (header
\* length plus all column widths) and a mismatch ends the scan with an
\* error; the length reported for a rejected row is the one reported for
\* the record without the filter.
C10_PayloadChecked ==
    cell.page_id # 0 =>
        LET page == get_page(file, cell.page_id).page
            unfiltered == parse_record(page, cell.rowid, plan.table_info.int_pk_column,
                                       cell.offset, plan.selection, NoWhere)
        IN  /\ cell.asserted
            /\ cell.bytes_read = RecordLength(page, cell.offset)
            /\ cell.bytes_read # cell.payload_size =>
                   (pc = "raised" /\ out.exc = "AssertionError")
            /\ (cell.none /\ unfiltered.status = "ok") =>
                   cell.bytes_read = unfiltered.length

\* a row was rejected by the filter after another was emitted, the record
\* of the rejected row holding a column behind the filter column
C10_Witness ==
    /\ cell.none /\ cell.asserted /\ pc = "scan" /\ emitted # <<>>
    /\ cell.bytes_read = cell.payload_size
    /\ cell.bytes_read > 4

=============================================================================
